---- MODULE Spec2Model ----
(***************************************************************************)
(* Model of the prediction-and-ranking subsystem: StockSorter (the four    *)
(* sorting algorithms, the smartSort dispatcher, multiSort and the         *)
(* benchmark), StockRandomForest (train / predict over the technical-      *)
(* indicator feature pipeline) and the server routes that share one        *)
(* StockRandomForest.                                                      *)
(*                                                                         *)
(* JavaScript arrays are 0-based; an array is modelled as a sequence and   *)
(* At / Swap take the source's 0-based indices, so every index expression  *)
(* below is the one written in the source.  A for / while loop is an       *)
(* operator over the range of iterations it runs, evaluated by halving the *)
(* range so that the evaluation stays shallow on arrays of a thousand      *)
(* records; the iterations run in the source's order.  A loop or recursive *)
(* call names the value of the array it works on once (x \in {x0}) before  *)
(* it reads it, as the source's local variable does.                       *)
(***************************************************************************)
EXTENDS Integers, Sequences, FiniteSets, TLC

VARIABLES
    arr,            \* the caller's array handed to the StockSorter
    sortBy,         \* the criterion name the caller passes
    result,         \* what the last StockSorter call handed back
    model,          \* StockRandomForest.model
    isTrained,      \* StockRandomForest.isTrained
    barsGiven,      \* the bars handed to the last train / predict call
    outcome,        \* what the last train / predict call returned
    trainedOnce,    \* history: some train call has succeeded
    response,       \* the server's answer to the last prediction request
    indicators,     \* what the last call of an indicator function returned
    requests        \* the prediction requests in flight, by client

sortVars == <<arr, sortBy, result>>

forecastVars == <<model, isTrained, barsGiven, outcome, trainedOnce>>

serverVars == <<response>>

indicatorVars == <<indicators>>

requestVars == <<requests>>

vars ==
    <<arr, sortBy, result, model, isTrained, barsGiven, outcome, trainedOnce, response,
      indicators, requests>>

(***************************************************************************)
(* Bounds of the model.                                                    *)
(***************************************************************************)
\* longest array of the exhaustive inputs
MaxLen == 3

\* how far past each smartSort threshold the dispatch inputs reach
Margin == 1

\* how far past each bar-count threshold the forecaster's inputs reach
ExtraBars == 1

(***************************************************************************)
(* Array helpers (0-based indices, as in the source).                      *)
(***************************************************************************)
At(a, i) == a[i + 1]

Swap(a, i, j) == IF i = j THEN a ELSE [a EXCEPT ![i + 1] = a[j + 1], ![j + 1] = a[i + 1]]

\* the one element of a singleton set
Val(s) == CHOOSE v \in s : TRUE

Sign(x) == IF x < 0 THEN -1 ELSE IF x > 0 THEN 1 ELSE 0

(***************************************************************************)
(* Stock records.  String fields (symbol, company_name, sector) are held   *)
(* as their rank in locale order, 0 being the empty / missing string;      *)
(* numeric and date fields are integers, 0 being a missing value.          *)
(***************************************************************************)
Stock(sym, name, sec, close, cur, vol, cap, date, created, chg) ==
    [symbol |-> sym, company_name |-> name, sector |-> sec,
     close_price |-> close, current_price |-> cur, volume |-> vol,
     market_cap |-> cap, date |-> date, created_at |-> created,
     change_percent |-> chg]

Records ==
    { Stock(1, 3, 1, 20,  0, 7, 0, 3, 0, -2),
      Stock(2, 1, 1,  0, 20, 7, 5, 0, 3,  4),
      Stock(3, 2, 2, 10, 99, 2, 5, 1, 9, -2) }

\* x || y of JavaScript on numbers: the first operand unless it is falsy (0).
Or(x, y) == IF x # 0 THEN x ELSE y

\* String.prototype.localeCompare on ranks: negative, zero or positive.
LocaleCompare(x, y) == Sign(x - y)

Price(a) == Or(Or(a.close_price, a.current_price), 0)

Date(a) == Or(Or(a.date, a.created_at), 0)

\* this.compareFunctions: the registry of comparators, by criterion name.
compareFunctions ==
    { "price_asc", "price_desc", "volume_asc", "volume_desc",
      "market_cap_asc", "market_cap_desc", "symbol_asc", "symbol_desc",
      "name_asc", "name_desc", "sector_asc", "sector_desc",
      "date_asc", "date_desc", "change_asc", "change_desc" }

compareFunc(c, a, b) ==
    CASE c = "price_asc"       -> Price(a) - Price(b)
      [] c = "price_desc"      -> Price(b) - Price(a)
      [] c = "volume_asc"      -> Or(a.volume, 0) - Or(b.volume, 0)
      [] c = "volume_desc"     -> Or(b.volume, 0) - Or(a.volume, 0)
      [] c = "market_cap_asc"  -> Or(a.market_cap, 0) - Or(b.market_cap, 0)
      [] c = "market_cap_desc" -> Or(b.market_cap, 0) - Or(a.market_cap, 0)
      [] c = "symbol_asc"      -> LocaleCompare(Or(a.symbol, 0), Or(b.symbol, 0))
      [] c = "symbol_desc"     -> LocaleCompare(Or(b.symbol, 0), Or(a.symbol, 0))
      [] c = "name_asc"        -> LocaleCompare(Or(a.company_name, 0), Or(b.company_name, 0))
      [] c = "name_desc"       -> LocaleCompare(Or(b.company_name, 0), Or(a.company_name, 0))
      [] c = "sector_asc"      -> LocaleCompare(Or(a.sector, 0), Or(b.sector, 0))
      [] c = "sector_desc"     -> LocaleCompare(Or(b.sector, 0), Or(a.sector, 0))
      [] c = "date_asc"        -> Date(a) - Date(b)
      [] c = "date_desc"       -> Date(b) - Date(a)
      [] c = "change_asc"      -> Or(a.change_percent, 0) - Or(b.change_percent, 0)
      [] c = "change_desc"     -> Or(b.change_percent, 0) - Or(a.change_percent, 0)

(***************************************************************************)
(* What a call hands back: the array it returned, or the error it threw.   *)
(***************************************************************************)
Returned(a) == [threw |-> FALSE, error |-> "", value |-> a]

Threw(e) == [threw |-> TRUE, error |-> e, value |-> <<>>]

Null == "null"

\* mutant of Spread: no copy is made, the sort works on the caller's own array
SpreadNothing(a) == [own |-> TRUE, items |-> a]

\* [...arr]: a new array object holding the caller's records
Spread(a) == [own |-> FALSE, items |-> a]

\* arr: the caller's own array object
Own(a) == [own |-> TRUE, items |-> a]

\* a call as the caller sees it: what it handed back, whether the array handed
\* back is the caller's own array object, and the caller's array after the call
Seen(call, same, input) ==
    [threw |-> call.threw, error |-> call.error, value |-> call.value,
     same |-> same, input |-> input]

\* return w, the array object the sort worked in, which now holds sorted: the
\* caller's array has changed with it when w is the caller's own object
Handed(a, w, sorted) == Seen(Returned(sorted), w.own, IF w.own THEN sorted ELSE a)

\* return an array built by the call; the array object w was only read
Built(a, sorted) == Seen(Returned(sorted), FALSE, a)

\* throw before any array is touched
Fails(a, e) == Seen(Threw(e), FALSE, a)

InvalidCriteria == "Invalid sort criteria"

(***************************************************************************)
(* Quick sort: Lomuto partition, pivot = last element of the sub-range.    *)
(***************************************************************************)
\* mutant of PartitionStep: the comparison with the pivot is strict
PartitionStepStrict(st, j, high, c) ==
    IF compareFunc(c, At(st[1], j), At(st[1], high)) < 0
    THEN <<Swap(st[1], st[2] + 1, j), st[2] + 1>>
    ELSE st

\* one iteration of the for loop of _partition; st = <<arr, i>>
PartitionStep(st, j, high, c) ==
    IF compareFunc(c, At(st[1], j), At(st[1], high)) <= 0
    THEN <<Swap(st[1], st[2] + 1, j), st[2] + 1>>
    ELSE st

RECURSIVE PartitionLoop(_, _, _, _, _)
\* the iterations j = from .. to - 1 of the for loop of _partition
PartitionLoop(st0, from, to, high, c) ==
    Val({ IF to <= from THEN st
          ELSE IF to = from + 1 THEN PartitionStep(st, from, high, c)
          ELSE LET mid == (from + to) \div 2
               IN  PartitionLoop(PartitionLoop(st, from, mid, high, c), mid, to, high, c)
          : st \in {st0} })

\* mutant of _partition: the pivot is not swapped into its place
_partitionLeavesPivot(a, low, high, c) ==
    Val({ [arr |-> loop[1], pivotIndex |-> loop[2] + 1]
          : loop \in {PartitionLoop(<<a, low - 1>>, low, high, high, c)} })

_partition(a, low, high, c) ==
    Val({ [arr |-> Swap(loop[1], loop[2] + 1, high), pivotIndex |-> loop[2] + 1]
          : loop \in {PartitionLoop(<<a, low - 1>>, low, high, high, c)} })

RECURSIVE _quickSortRecursive(_, _, _, _)
_quickSortRecursive(a, low, high, c) ==
    IF low < high
    THEN Val({ Val({ _quickSortRecursive(left, p.pivotIndex + 1, high, c)
                     : left \in {_quickSortRecursive(p.arr, low, p.pivotIndex - 1, c)} })
               : p \in {_partition(a, low, high, c)} })
    ELSE a

quickSort(a, c) ==
    IF Len(a) <= 1 THEN Handed(a, Own(a), a)
    ELSE IF c \notin compareFunctions THEN Fails(a, InvalidCriteria)
    ELSE LET w == Spread(a)
         IN  Handed(a, w, _quickSortRecursive(w.items, 0, Len(a) - 1, c))

(***************************************************************************)
(* Merge sort: top-down split at the midpoint, merge preferring the left.  *)
(***************************************************************************)
\* mutant of MergeStep: on a tie the right element goes first
MergeStepStrict(st, left, right, c) ==
    IF st.leftIndex < Len(left) /\ st.rightIndex < Len(right)
    THEN IF compareFunc(c, At(left, st.leftIndex), At(right, st.rightIndex)) < 0
         THEN [st EXCEPT !.result = Append(@, At(left, st.leftIndex)),
                         !.leftIndex = @ + 1]
         ELSE [st EXCEPT !.result = Append(@, At(right, st.rightIndex)),
                         !.rightIndex = @ + 1]
    ELSE st

\* one test-and-body of the while loop of _merge (no change once it has ended)
MergeStep(st, left, right, c) ==
    IF st.leftIndex < Len(left) /\ st.rightIndex < Len(right)
    THEN IF compareFunc(c, At(left, st.leftIndex), At(right, st.rightIndex)) <= 0
         THEN [st EXCEPT !.result = Append(@, At(left, st.leftIndex)),
                         !.leftIndex = @ + 1]
         ELSE [st EXCEPT !.result = Append(@, At(right, st.rightIndex)),
                         !.rightIndex = @ + 1]
    ELSE st

RECURSIVE MergeLoop(_, _, _, _, _)
\* n rounds of the while loop of _merge
MergeLoop(st0, n, left, right, c) ==
    Val({ IF n <= 0 THEN st
          ELSE IF n = 1 THEN MergeStep(st, left, right, c)
          ELSE LET half == n \div 2
               IN  MergeLoop(MergeLoop(st, half, left, right, c), n - half, left, right, c)
          : st \in {st0} })

\* mutant of _merge: the rest of the right half is not appended
_mergeDropsRight(left0, right0, c) ==
    Val({ Val({ st.result \o SubSeq(left, st.leftIndex + 1, Len(left))
                : st \in {MergeLoop([result |-> <<>>, leftIndex |-> 0, rightIndex |-> 0],
                                    Len(left) + Len(right), left, right, c)} })
          : left \in {left0}, right \in {right0} })

\* the while loop ends within left.length + right.length rounds
_merge(left0, right0, c) ==
    Val({ Val({ st.result \o SubSeq(left, st.leftIndex + 1, Len(left))
                          \o SubSeq(right, st.rightIndex + 1, Len(right))
                : st \in {MergeLoop([result |-> <<>>, leftIndex |-> 0, rightIndex |-> 0],
                                    Len(left) + Len(right), left, right, c)} })
          : left \in {left0}, right \in {right0} })

RECURSIVE _mergeSortRecursive(_, _)
_mergeSortRecursive(a, c) ==
    IF Len(a) <= 1 THEN a
    ELSE LET mid == Len(a) \div 2
         IN  _merge(_mergeSortRecursive(SubSeq(a, 1, mid), c),
                    _mergeSortRecursive(SubSeq(a, mid + 1, Len(a)), c), c)

\* _mergeSortRecursive returns the array it was given when that holds at most
\* one record, and the array built by _merge otherwise
mergeSort(a, c) ==
    IF c \notin compareFunctions THEN Fails(a, InvalidCriteria)
    ELSE LET w == Spread(a)
         IN  IF Len(w.items) <= 1 THEN Handed(a, w, _mergeSortRecursive(w.items, c))
             ELSE Built(a, _mergeSortRecursive(w.items, c))

(***************************************************************************)
(* Bubble sort: adjacent-swap passes, early exit after a pass with no swap.*)
(***************************************************************************)
\* mutant of BubbleStep: records that compare equal are swapped too
BubbleStepSwapsTies(st, j, c) ==
    IF compareFunc(c, At(st.arr, j), At(st.arr, j + 1)) >= 0
    THEN [st EXCEPT !.arr = Swap(@, j, j + 1), !.swapped = TRUE]
    ELSE st

\* one iteration of the inner for loop; st = [arr, swapped, done]
BubbleStep(st, j, c) ==
    IF compareFunc(c, At(st.arr, j), At(st.arr, j + 1)) > 0
    THEN [st EXCEPT !.arr = Swap(@, j, j + 1), !.swapped = TRUE]
    ELSE st

RECURSIVE BubbleInner(_, _, _, _)
\* the iterations j = from .. to - 1 of the inner for loop
BubbleInner(st0, from, to, c) ==
    Val({ IF to <= from THEN st
          ELSE IF to = from + 1 THEN BubbleStep(st, from, c)
          ELSE LET mid == (from + to) \div 2
               IN  BubbleInner(BubbleInner(st, from, mid, c), mid, to, c)
          : st \in {st0} })

\* one iteration of the outer for loop: a pass, then the break test
BubblePass(st, i, n, c) ==
    IF st.done THEN st
    ELSE Val({ [pass EXCEPT !.done = ~pass.swapped]
               : pass \in {BubbleInner([st EXCEPT !.swapped = FALSE], 0, n - i - 1, c)} })

RECURSIVE BubbleOuter(_, _, _, _, _)
\* the iterations i = from .. to - 1 of the outer for loop
BubbleOuter(st0, from, to, n, c) ==
    Val({ IF to <= from THEN st
          ELSE IF to = from + 1 THEN BubblePass(st, from, n, c)
          ELSE LET mid == (from + to) \div 2
               IN  BubbleOuter(BubbleOuter(st, from, mid, n, c), mid, to, n, c)
          : st \in {st0} })

bubbleSort(a, c) ==
    IF c \notin compareFunctions THEN Fails(a, InvalidCriteria)
    ELSE LET sortedArr == Spread(a)
             n         == Len(sortedArr.items)
         IN  Handed(a, sortedArr,
                    BubbleOuter([arr |-> sortedArr.items, swapped |-> FALSE, done |-> FALSE],
                                0, n - 1, n, c).arr)

(***************************************************************************)
(* Heap sort: build a max-heap by sift-down, then swap the root to the end.*)
(***************************************************************************)
RECURSIVE _heapify(_, _, _, _)
_heapify(a0, n, i, c) ==
    Val({ LET left     == 2 * i + 1
              right    == 2 * i + 2
              largest1 == IF left < n /\ compareFunc(c, At(a, left), At(a, i)) > 0
                          THEN left ELSE i
              largest  == IF right < n /\ compareFunc(c, At(a, right), At(a, largest1)) > 0
                          THEN right ELSE largest1
          IN  IF largest # i THEN _heapify(Swap(a, i, largest), n, largest, c) ELSE a
          : a \in {a0} })

RECURSIVE HeapBuild(_, _, _, _, _)
\* the iterations i = from down to to + 1 of the build loop
HeapBuild(a0, from, to, n, c) ==
    Val({ IF from <= to THEN a
          ELSE IF from = to + 1 THEN _heapify(a, n, from, c)
          ELSE LET mid == (from + to) \div 2
               IN  HeapBuild(HeapBuild(a, from, mid, n, c), mid, to, n, c)
          : a \in {a0} })

RECURSIVE HeapExtract(_, _, _, _)
\* the iterations i = from down to to + 1 of the extraction loop
HeapExtract(a0, from, to, c) ==
    Val({ IF from <= to THEN a
          ELSE IF from = to + 1 THEN _heapify(Swap(a, 0, from), from, 0, c)
          ELSE LET mid == (from + to) \div 2
               IN  HeapExtract(HeapExtract(a, from, mid, c), mid, to, c)
          : a \in {a0} })

heapSort(a, c) ==
    IF c \notin compareFunctions THEN Fails(a, InvalidCriteria)
    ELSE LET sortedArr == Spread(a)
             n         == Len(sortedArr.items)
         IN  Handed(a, sortedArr,
                    HeapExtract(HeapBuild(sortedArr.items, (n \div 2) - 1, -1, n, c),
                                n - 1, 0, c))

(***************************************************************************)
(* Smart sort: the size-adaptive dispatcher.  The clock readings           *)
(* (executionTime, timestamp) are not part of the state.                   *)
(***************************************************************************)
SmallLimit == 10

QuickLimit == 1000

\* mutant of ChooseBySize: the limits are exclusive
ChooseBySizeStrict(n) ==
    IF n < SmallLimit THEN "bubble"
    ELSE IF n < QuickLimit THEN "quick"
    ELSE "merge"

\* the choice by array size, taken when no algorithm is pinned
ChooseBySize(n) ==
    IF n <= SmallLimit THEN "bubble"
    ELSE IF n <= QuickLimit THEN "quick"
    ELSE "merge"

\* mutant of SmartSwitch: the default branch leaves the pinned name in place
SmartSwitchKeepsName(algorithm, a, c) ==
    CASE algorithm = "quick"  -> [ran |-> "quickSort", algorithm |-> algorithm,
                                  call |-> quickSort(a, c)]
      [] algorithm = "merge"  -> [ran |-> "mergeSort", algorithm |-> algorithm,
                                  call |-> mergeSort(a, c)]
      [] algorithm = "bubble" -> [ran |-> "bubbleSort", algorithm |-> algorithm,
                                  call |-> bubbleSort(a, c)]
      [] algorithm = "heap"   -> [ran |-> "heapSort", algorithm |-> algorithm,
                                  call |-> heapSort(a, c)]
      [] OTHER                -> [ran |-> "quickSort", algorithm |-> algorithm,
                                  call |-> quickSort(a, c)]

\* the switch of smartSort: the sort it runs, and the name it leaves in algorithm
SmartSwitch(algorithm, a, c) ==
    CASE algorithm = "quick"  -> [ran |-> "quickSort", algorithm |-> algorithm,
                                  call |-> quickSort(a, c)]
      [] algorithm = "merge"  -> [ran |-> "mergeSort", algorithm |-> algorithm,
                                  call |-> mergeSort(a, c)]
      [] algorithm = "bubble" -> [ran |-> "bubbleSort", algorithm |-> algorithm,
                                  call |-> bubbleSort(a, c)]
      [] algorithm = "heap"   -> [ran |-> "heapSort", algorithm |-> algorithm,
                                  call |-> heapSort(a, c)]
      [] OTHER                -> [ran |-> "quickSort", algorithm |-> "quick",
                                  call |-> quickSort(a, c)]

smartSort(a, c, preferredAlgorithm) ==
    Val({ IF s.call.threw
          THEN [threw |-> TRUE, error |-> s.call.error, sortedData |-> <<>>,
                algorithm |-> "", itemCount |-> 0, sortCriteria |-> "",
                ran |-> s.ran, same |-> FALSE, input |-> s.call.input]
          ELSE [threw |-> FALSE, error |-> "", sortedData |-> s.call.value,
                algorithm |-> s.algorithm,
                itemCount |-> Len(s.call.input), sortCriteria |-> c,
                ran |-> s.ran, same |-> s.call.same, input |-> s.call.input]
          : s \in { SmartSwitch(IF preferredAlgorithm # Null THEN preferredAlgorithm
                                ELSE ChooseBySize(Len(a)), a, c) } })

(***************************************************************************)
(* Multi-criteria sort: Array.prototype.sort on a copy, with a comparator  *)
(* that walks the criteria list.                                           *)
(***************************************************************************)
\* mutant of MultiCompare: the first registered criterion alone decides
MultiCompareFirstOnly(criteria, k, a, b) ==
    IF \A j \in k..Len(criteria) : criteria[j] \notin compareFunctions THEN 0
    ELSE compareFunc(criteria[CHOOSE j \in k..Len(criteria) :
                                  /\ criteria[j] \in compareFunctions
                                  /\ \A i \in k..(j - 1) : criteria[i] \notin compareFunctions],
                     a, b)

RECURSIVE MultiCompare(_, _, _, _)
\* the comparator's for loop from the k-th criterion on: a name the registry
\* does not hold is skipped, the first non-zero result is returned, 0 at the end
MultiCompare(criteria, k, a, b) ==
    IF k > Len(criteria) THEN 0
    ELSE IF criteria[k] \notin compareFunctions THEN MultiCompare(criteria, k + 1, a, b)
    ELSE IF compareFunc(criteria[k], a, b) # 0 THEN compareFunc(criteria[k], a, b)
    ELSE MultiCompare(criteria, k + 1, a, b)

\* x put into a sorted array behind every record that does not compare above it
ArrayInsert(sorted, x, criteria) ==
    LET k == Cardinality({ i \in DOMAIN sorted : MultiCompare(criteria, 1, sorted[i], x) <= 0 })
    IN  SubSeq(sorted, 1, k) \o <<x>> \o SubSeq(sorted, k + 1, Len(sorted))

RECURSIVE ArraySort(_, _)
\* Array.prototype.sort with the comparator: sorted, and stable as the
\* language requires, which fixes the result for a consistent comparator
ArraySort(items, criteria) ==
    IF Len(items) = 0 THEN items
    ELSE ArrayInsert(ArraySort(SubSeq(items, 1, Len(items) - 1), criteria),
                     items[Len(items)], criteria)

multiSort(a, criteria) ==
    LET w == Spread(a)
    IN  Handed(a, w, ArraySort(w.items, criteria))

(***************************************************************************)
(* benchmarkAlgorithms: every listed algorithm sorts the array once; the   *)
(* timings read from the clock are left out, a run is kept with what the   *)
(* sort handed back.                                                       *)
(***************************************************************************)
BubbleLimit == 100

\* mutant of BenchmarkList: bubble sort is left out at the limit itself
BenchmarkListStrict(n) ==
    <<"quick", "merge", "heap">> \o (IF n < BubbleLimit THEN <<"bubble">> ELSE <<>>)

\* the algorithms to run: bubble sort only up to 100 records
BenchmarkList(n) ==
    <<"quick", "merge", "heap">> \o (IF n <= BubbleLimit THEN <<"bubble">> ELSE <<>>)

\* the switch of the benchmark loop
BenchmarkRun(algorithm, a, c) ==
    CASE algorithm = "quick"  -> quickSort(a, c)
      [] algorithm = "merge"  -> mergeSort(a, c)
      [] algorithm = "bubble" -> bubbleSort(a, c)
      [] OTHER                -> heapSort(a, c)

RECURSIVE BenchmarkLoop(_, _, _, _)
\* the iterations of the for loop from the i-th algorithm on; every run is
\* handed the caller's array as the runs before it left it, and a sort that
\* throws ends the loop
BenchmarkLoop(st0, i, algorithms, c) ==
    Val({ IF i > Len(algorithms) \/ st.threw THEN st
          ELSE BenchmarkLoop(
                   Val({ [input |-> run.input, runs |-> Append(st.runs, run),
                          threw |-> run.threw, error |-> run.error]
                         : run \in {BenchmarkRun(algorithms[i], st.input, c)} }),
                   i + 1, algorithms, c)
          : st \in {st0} })

\* the keys of results in the order they were written, the runs made and the
\* caller's array after them; a sort that throws ends the benchmark with its
\* error
benchmarkAlgorithms(a, c) ==
    Val({ IF loop.threw
          THEN [threw |-> TRUE, error |-> loop.error, keys |-> <<>>, runs |-> <<>>,
                input |-> loop.input]
          ELSE [threw |-> FALSE, error |-> "", keys |-> BenchmarkList(Len(a)),
                runs |-> loop.runs, input |-> loop.input]
          : loop \in { BenchmarkLoop([input |-> a, runs |-> <<>>, threw |-> FALSE,
                                      error |-> ""],
                                     1, BenchmarkList(Len(a)), c) } })

(***************************************************************************)
(* StockRandomForest: the technical indicators.  A bar is a record with    *)
(* close_price and volume (whole numbers).  An indicator value is a pair   *)
(* <<numerator, denominator>>: exact where the source's value is a ratio   *)
(* of sums, and in thousandths, rounded down, where it is a running        *)
(* average or a square root.                                               *)
(***************************************************************************)
Whole(x) == <<x, 1>>

Thousandths(x) == <<x, 1000>>

RECURSIVE SumClose(_, _, _)
\* the closes of data[from .. to - 1], added up
SumClose(data, from, to) ==
    IF from >= to THEN 0 ELSE At(data, from).close_price + SumClose(data, from + 1, to)

RECURSIVE SumVolume(_, _, _)
SumVolume(data, from, to) ==
    IF from >= to THEN 0 ELSE At(data, from).volume + SumVolume(data, from + 1, to)

RECURSIVE SumSquares(_, _, _)
SumSquares(data, from, to) ==
    IF from >= to THEN 0
    ELSE At(data, from).close_price * At(data, from).close_price
         + SumSquares(data, from + 1, to)

calculateSMA(data, period) ==
    IF Len(data) < period THEN Whole(At(data, Len(data) - 1).close_price)
    ELSE <<SumClose(data, Len(data) - period, Len(data)), period>>

RECURSIVE EMALoop(_, _, _, _, _)
\* the iterations i = from .. to - 1 of the loop of calculateEMA; ema in thousandths
EMALoop(ema0, from, to, data, period) ==
    Val({ IF to <= from THEN ema
          ELSE IF to = from + 1
               THEN (2 * 1000 * At(data, from).close_price + (period - 1) * ema)
                    \div (period + 1)
          ELSE LET mid == (from + to) \div 2
               IN  EMALoop(EMALoop(ema, from, mid, data, period), mid, to, data, period)
          : ema \in {ema0} })

calculateEMA(data, period) ==
    IF Len(data) < period THEN Whole(At(data, Len(data) - 1).close_price)
    ELSE Thousandths(EMALoop(1000 * At(data, 0).close_price, 1, Len(data), data, period))

Change(data, i) == At(data, i).close_price - At(data, i - 1).close_price

RECURSIVE RSIInitial(_, _, _, _)
\* the first loop of calculateRSI, i = from .. to: st = <<gains, losses>>
RSIInitial(st, from, to, data) ==
    IF from > to THEN st
    ELSE RSIInitial(IF Change(data, from) > 0
                    THEN <<st[1] + Change(data, from), st[2]>>
                    ELSE <<st[1], st[2] - Change(data, from)>>,
                    from + 1, to, data)

\* mutant of RSIStep: a rise is counted as a loss and a fall as a gain
RSIStepSwapped(st, i, data, period) ==
    LET change == Change(data, i)
        gain   == IF change < 0 THEN -change ELSE 0
        loss   == IF change > 0 THEN change ELSE 0
    IN  <<(st[1] * (period - 1) + 1000 * gain) \div period,
          (st[2] * (period - 1) + 1000 * loss) \div period>>

\* one iteration of the second loop; st = <<avgGain, avgLoss>> in thousandths
RSIStep(st, i, data, period) ==
    LET change == Change(data, i)
        gain   == IF change > 0 THEN change ELSE 0
        loss   == IF change < 0 THEN -change ELSE 0
    IN  <<(st[1] * (period - 1) + 1000 * gain) \div period,
          (st[2] * (period - 1) + 1000 * loss) \div period>>

RECURSIVE RSILoop(_, _, _, _, _)
\* the iterations i = from .. to - 1 of the second loop of calculateRSI
RSILoop(st0, from, to, data, period) ==
    Val({ IF to <= from THEN st
          ELSE IF to = from + 1 THEN RSIStep(st, from, data, period)
          ELSE LET mid == (from + to) \div 2
               IN  RSILoop(RSILoop(st, from, mid, data, period), mid, to, data, period)
          : st \in {st0} })

calculateRSI(data, period) ==
    IF Len(data) < period + 1 THEN Whole(50)
    ELSE Val({ IF avg[2] = 0 THEN Whole(100)
               ELSE Thousandths(100000 - (100000 * avg[2]) \div (avg[1] + avg[2]))
               : avg \in { Val({ RSILoop(<<(1000 * sums[1]) \div period,
                                           (1000 * sums[2]) \div period>>,
                                         period + 1, Len(data), data, period)
                                 : sums \in {RSIInitial(<<0, 0>>, 1, period, data)} }) } })

RECURSIVE SqrtBetween(_, _, _)
\* the largest r in low .. high with r * r <= x
SqrtBetween(x, low, high) ==
    IF low >= high THEN low
    ELSE LET mid == (low + high + 1) \div 2
         IN  IF mid * mid <= x THEN SqrtBetween(x, mid, high)
             ELSE SqrtBetween(x, low, mid - 1)

\* Math.sqrt, rounded down
Sqrt(x) == SqrtBetween(x, 0, 46340)

\* a thousand times Math.sqrt(x), rounded down to the precision 32 bits allow
SqrtThousandths(x) ==
    IF x < 200000 THEN Sqrt(x * 10000) * 10
    ELSE IF x < 20000000 THEN Sqrt(x * 100) * 100
    ELSE Sqrt(x) * 1000

\* standard deviation of the last `period` closes, in thousandths:
\* variance = (period * sum of squares - square of the sum) / period^2
calculateVolatility(data, period) ==
    IF Len(data) < period THEN Whole(0)
    ELSE LET n   == Len(data)
             sum == SumClose(data, n - period, n)
             sq  == SumSquares(data, n - period, n)
         IN  Thousandths(SqrtThousandths(period * sq - sum * sum) \div period)

calculateVolumeRatio(data, period) ==
    IF Len(data) < period THEN Whole(1)
    ELSE LET currentVolume == At(data, Len(data) - 1).volume
             sum           == SumVolume(data, Len(data) - period, Len(data))
         IN  IF sum > 0 THEN <<currentVolume * period, sum>> ELSE Whole(1)

calculateMomentum(data, period) ==
    IF Len(data) < period + 1 THEN Whole(0)
    ELSE LET currentPrice == At(data, Len(data) - 1).close_price
             pastPrice    == At(data, Len(data) - 1 - period).close_price
         IN  <<(currentPrice - pastPrice) * 100, pastPrice>>

\* the index of the first bar that gets a feature vector, and of the first target
FirstFeatureIndex == 26

FirstTargetIndex == 27

\* mutant of Slice: a window of the last twenty bars up to index i
SliceWindow(historicalData, i) == SubSeq(historicalData, i - 18, i + 1)

\* mutant of Slice: the whole series, the bars after index i included
SliceAll(historicalData, i) == historicalData

\* historicalData.slice(0, i + 1)
Slice(historicalData, i) == SubSeq(historicalData, 1, i + 1)

\* the slices the loop of calculateTechnicalIndicators hands to the indicator
\* functions, one for each bar index from 26 on
Slices(historicalData) ==
    [k \in 1..(IF Len(historicalData) > FirstFeatureIndex
               THEN Len(historicalData) - FirstFeatureIndex ELSE 0)
       |-> Slice(historicalData, FirstFeatureIndex + k - 1)]

\* the features of the loop body whose function takes its first return, the
\* value for a history shorter than its period, on the slice
Fallbacks(slice) ==
    { name \in {"sma_5", "sma_10", "sma_20", "ema_12", "ema_26", "rsi", "volatility",
                "volume_ratio", "momentum_3", "momentum_7", "price_change_pct"} :
        CASE name = "sma_5"        -> Len(slice) < 5
          [] name = "sma_10"       -> Len(slice) < 10
          [] name = "sma_20"       -> Len(slice) < 20
          [] name = "ema_12"       -> Len(slice) < 12
          [] name = "ema_26"       -> Len(slice) < 26
          [] name = "rsi"          -> Len(slice) < 14 + 1
          [] name = "volatility"   -> Len(slice) < 10
          [] name = "volume_ratio" -> Len(slice) < 10
          [] name = "momentum_3"   -> Len(slice) < 3 + 1
          [] name = "momentum_7"   -> Len(slice) < 7 + 1
          [] OTHER                 -> ~(Len(slice) > 1) }

\* the body of the loop of calculateTechnicalIndicators, at bar index i
FeatureVector(historicalData, i) ==
    LET slice   == Slice(historicalData, i)
        current == At(historicalData, i)
        previous == At(slice, Len(slice) - 2)
    IN  << calculateSMA(slice, 5), calculateSMA(slice, 10), calculateSMA(slice, 20),
           calculateEMA(slice, 12), calculateEMA(slice, 26),
           calculateRSI(slice, 14),
           calculateVolatility(slice, 10),
           calculateVolumeRatio(slice, 10),
           calculateMomentum(slice, 3), calculateMomentum(slice, 7),
           IF Len(slice) > 1
           THEN <<(current.close_price - previous.close_price) * 100,
                  previous.close_price>>
           ELSE Whole(0) >>

\* mutant of calculateTechnicalIndicators: the loop starts one bar early
calculateTechnicalIndicatorsEarly(historicalData) ==
    [k \in 1..(IF Len(historicalData) >= FirstFeatureIndex
               THEN Len(historicalData) - FirstFeatureIndex + 1 ELSE 0)
       |-> FeatureVector(historicalData, FirstFeatureIndex + k - 2)]

calculateTechnicalIndicators(historicalData) ==
    [k \in 1..(IF Len(historicalData) > FirstFeatureIndex
               THEN Len(historicalData) - FirstFeatureIndex ELSE 0)
       |-> FeatureVector(historicalData, FirstFeatureIndex + k - 1)]

\* the targets loop of train: the closes from index 27 on
Targets(historicalData) ==
    [k \in 1..(IF Len(historicalData) > FirstTargetIndex
               THEN Len(historicalData) - FirstTargetIndex ELSE 0)
       |-> At(historicalData, FirstTargetIndex + k - 1).close_price]

(***************************************************************************)
(* StockRandomForest: train and predict.  The regressor of the             *)
(* ml-random-forest package is outside the repository: fitting either      *)
(* returns or throws, and a fitted regressor answers as a function of its  *)
(* training set and the query (its seed is fixed), here the target of the  *)
(* training row nearest to the query in the first feature.                 *)
(***************************************************************************)
MinSamples == 30

\* bar series: a close that rises by two a day, one that zigzags upward, and
\* one that rises and then stands at 0 for its last ten bars
Series(n, shape) ==
    [i \in 1..n |->
        CASE shape = "rising" -> [close_price |-> 100 + 2 * i, volume |-> 10]
          [] shape = "zigzag" -> [close_price |-> 100 + ((i * 7) % 5) * 3 + i,
                                  volume |-> 10 + (i % 4)]
          [] OTHER            -> [close_price |-> IF i > n - 10 THEN 0 ELSE 100 + 2 * i,
                                  volume |-> 10]]

Shapes == {"rising", "zigzag", "halted"}

\* bar counts around the thresholds: no feature vector below 27 bars,
\* training from 30 feature vectors (56 bars) on, and the 90 bars of the example
BarCounts ==
    {0, 1, 90}
      \cup ((FirstFeatureIndex - 1)..(FirstFeatureIndex + ExtraBars))
      \cup ((FirstFeatureIndex + MinSamples - 2)..(FirstFeatureIndex + MinSamples + ExtraBars))

BarInputs == { Series(n, shape) : n \in BarCounts, shape \in Shapes }

\* calculateTechnicalIndicators of each input, evaluated once
IndicatorsOf == [bars \in BarInputs |-> calculateTechnicalIndicators(bars)]

InsufficientTraining == "Insufficient data for training. Need at least 30 data points."

NotTrained == "Model not trained. Please train the model first."

InsufficientRecent == "Insufficient recent data for prediction"

LibraryError == "error thrown by the regression library"

\* this.model = null
NullModel == [null |-> TRUE, fitted |-> FALSE, X |-> <<>>, y |-> <<>>]

\* new RandomForestRegression(...): a regressor not fitted yet
NewRegressor == [null |-> FALSE, fitted |-> FALSE, X |-> <<>>, y |-> <<>>]

\* model.train(X, y) returning normally
Fitted(X, y) == [null |-> FALSE, fitted |-> TRUE, X |-> X, y |-> y]

\* |a - b| of two values over the same denominator
Distance(a, b) == IF a[1] >= b[1] THEN a[1] - b[1] ELSE b[1] - a[1]

RECURSIVE Nearest(_, _, _, _)
\* the first of the rows from .. to that is nearest to x
Nearest(m, x, from, to) ==
    IF from >= to THEN from
    ELSE Val({ IF Distance(m.X[r][1], x[1]) < Distance(m.X[l][1], x[1]) THEN r ELSE l
               : l \in {Nearest(m, x, from, (from + to) \div 2)},
                 r \in {Nearest(m, x, (from + to) \div 2 + 1, to)} })

\* model.predict(X)[0] of a fitted regressor
RegressorPredict(m, x) == m.y[Nearest(m, x, 1, Len(m.y))]

NoValue == "none"

\* 0 / 0
NaN == <<0, 0>>

TrainFailure(message) ==
    [op |-> "train", raised |-> FALSE, success |-> FALSE, error |-> message,
     samplesUsed |-> NoValue, featuresCount |-> NoValue,
     predictedPrice |-> NoValue, confidence |-> NoValue, currentPrice |-> NoValue,
     priceChange |-> NoValue, priceChangePercent |-> NoValue, daysAhead |-> NoValue]

TrainSuccess(features) ==
    [op |-> "train", raised |-> FALSE, success |-> TRUE, error |-> "",
     samplesUsed |-> Len(features), featuresCount |-> Len(features[1]),
     predictedPrice |-> NoValue, confidence |-> NoValue, currentPrice |-> NoValue,
     priceChange |-> NoValue, priceChangePercent |-> NoValue, daysAhead |-> NoValue]

PredictFailure(message) ==
    [op |-> "predict", raised |-> FALSE, success |-> FALSE, error |-> message,
     samplesUsed |-> NoValue, featuresCount |-> NoValue,
     predictedPrice |-> NoValue, confidence |-> NoValue, currentPrice |-> NoValue,
     priceChange |-> NoValue, priceChangePercent |-> NoValue, daysAhead |-> NoValue]

\* Math.max(0, Math.min(100, x)) in thousandths
Clamp(x) == IF x < 0 THEN 0 ELSE IF x > 100000 THEN 100000 ELSE x

\* the confidence score of predict, in thousandths; a division by a current
\* price of 0 gives NaN (0 / 0) or an infinite amount to subtract
confidenceScore(predictedPrice, currentPrice, priceVolatility) ==
    LET priceDiff == IF predictedPrice >= currentPrice
                     THEN predictedPrice - currentPrice
                     ELSE currentPrice - predictedPrice
    IN  IF currentPrice = 0
        THEN IF priceDiff = 0 \/ priceVolatility[1] = 0 THEN NaN ELSE Thousandths(0)
        ELSE Thousandths(Clamp(100000 - (priceDiff * 100000) \div currentPrice
                                      - (priceVolatility[1] * 50) \div currentPrice))

\* mutant of tooFew: exactly MinSamples feature vectors are refused too
tooFewOrEqual(features) == Len(features) <= MinSamples

\* the data check of train
tooFew(features) == Len(features) < MinSamples

\* an error thrown inside a try block, with the instance as it is at the throw
Thrown(m, trained, message) ==
    [model |-> m, isTrained |-> trained, threw |-> TRUE, error |-> message,
     result |-> NoValue]

\* a return statement inside a try block
Return(m, trained, value) ==
    [model |-> m, isTrained |-> trained, threw |-> FALSE, error |-> "",
     result |-> value]

\* an exception that leaves the method and reaches the caller
Raised(op, message) ==
    [op |-> op, raised |-> TRUE, success |-> FALSE, error |-> message,
     samplesUsed |-> NoValue, featuresCount |-> NoValue,
     predictedPrice |-> NoValue, confidence |-> NoValue, currentPrice |-> NoValue,
     priceChange |-> NoValue, priceChangePercent |-> NoValue, daysAhead |-> NoValue]

\* mutant of insufficientData: the failure resets the instance
insufficientDataResets(fc) == Thrown(NullModel, FALSE, InsufficientTraining)

\* the throw of the data check: nothing was assigned yet
insufficientData(fc) == Thrown(fc.model, fc.isTrained, InsufficientTraining)

\* mutant of libraryFailure: the failure clears the trained flag
libraryFailureUntrains(fc) == Thrown(NewRegressor, FALSE, LibraryError)

\* model.train(X, y) throws: this.model already holds the new regressor, the
\* trained flag is as it was
libraryFailure(fc) == Thrown(NewRegressor, fc.isTrained, LibraryError)

\* the try block of train
trainTry(fc, historicalData, libraryThrows) ==
    LET features == IndicatorsOf[historicalData]
        targets  == Targets(historicalData)
    IN  IF tooFew(features)
        THEN insufficientData(fc)
        ELSE IF libraryThrows
        THEN libraryFailure(fc)
        ELSE Return(Fitted(features, targets), TRUE, TrainSuccess(features))

\* mutant of trainCatch: the error is thrown again
trainRethrows(message) == Raised("train", message)

\* the catch block of train
trainCatch(message) == TrainFailure(message)

\* StockRandomForest.train: the new state and the result
train(fc, historicalData, libraryThrows) ==
    LET t == trainTry(fc, historicalData, libraryThrows)
    IN  [model |-> t.model, isTrained |-> t.isTrained,
         result |-> IF t.threw THEN trainCatch(t.error) ELSE t.result]

\* mutant of notTrained: only the model reference is tested
notTrainedModelOnly(fc) == fc.model.null

\* the first check of predict: !this.isTrained || !this.model
notTrained(fc) == ~fc.isTrained \/ fc.model.null

\* the try block of predict (the instance is left alone)
predictTry(fc, recentData, daysAhead, libraryThrows) ==
    LET features == IndicatorsOf[recentData]
    IN  IF notTrained(fc) THEN Thrown(fc.model, fc.isTrained, NotTrained)
        ELSE IF Len(features) = 0 THEN Thrown(fc.model, fc.isTrained, InsufficientRecent)
        ELSE IF ~fc.model.fitted \/ libraryThrows
        THEN Thrown(fc.model, fc.isTrained, LibraryError)
        ELSE LET predictedPrice  == RegressorPredict(fc.model, features[Len(features)])
                 currentPrice    == At(recentData, Len(recentData) - 1).close_price
                 priceVolatility == calculateVolatility(recentData, 10)
             IN  Return(fc.model, fc.isTrained,
                   [op |-> "predict", raised |-> FALSE, success |-> TRUE, error |-> "",
                    samplesUsed |-> NoValue, featuresCount |-> NoValue,
                    predictedPrice |-> predictedPrice,
                    confidence |-> confidenceScore(predictedPrice, currentPrice,
                                                   priceVolatility),
                    currentPrice |-> currentPrice,
                    priceChange |-> predictedPrice - currentPrice,
                    priceChangePercent |-> <<(predictedPrice - currentPrice) * 100,
                                             currentPrice>>,
                    daysAhead |-> daysAhead])

\* the catch block of predict
predictCatch(message) == PredictFailure(message)

\* mutant of predict: the predicted price grows with the horizon
predictScaledByHorizon(fc, recentData, daysAhead, libraryThrows) ==
    LET t == predictTry(fc, recentData, daysAhead, libraryThrows)
    IN  IF t.threw THEN predictCatch(t.error)
        ELSE [t.result EXCEPT !.predictedPrice = @ * daysAhead]

\* StockRandomForest.predict: the result
predict(fc, recentData, daysAhead, libraryThrows) ==
    LET t == predictTry(fc, recentData, daysAhead, libraryThrows)
    IN  IF t.threw THEN predictCatch(t.error) ELSE t.result

(***************************************************************************)
(* Inputs.                                                                 *)
(***************************************************************************)
\* a criterion name the registry does not hold
UnknownCriterion == "pe_ratio_asc"

Criteria == compareFunctions \cup {UnknownCriterion}

\* every array of at most MaxLen records
ShortArrays == UNION { [1..n -> Records] : n \in 0..MaxLen }

\* the record whose symbol has rank j
Pick(j) == CHOOSE r \in Records : r.symbol = j

\* some longer arrays, with repeated records
LongArray(n, k) == [i \in 1..n |-> Pick(((i * i * k + i + k) % 3) + 1)]

LongArrays == { LongArray(n, k) : n \in (2 * MaxLen)..(2 * MaxLen + 2), k \in 0..2 }

Arrays == ShortArrays \cup LongArrays

PreferredAlgorithms == {Null, "quick", "merge", "bubble", "heap", "insertion"}

\* a record of the dispatch inputs: keys spread by index
SampleStock(i, k) ==
    Stock(((i * 389 + k) % 1009) + 1, ((i * 7 + k) % 11) + 1, (i % 3) + 1,
          ((i * 53 + k) % 997) + 1, 0, (i * 31) % 17, (i * 5) % 7,
          ((i * 61 + k) % 367) + 1, 0, (i % 9) - 4)

SampleArray(n, k) == [i \in 1..n |-> SampleStock(i, k)]

DispatchLengths ==
    (0..(SmallLimit + Margin)) \cup ((QuickLimit - Margin)..(QuickLimit + Margin))

DispatchArrays == { SampleArray(n, k) : n \in DispatchLengths, k \in {0, 3} }

\* criteria lists for multiSort: the default, lists whose later criterion
\* decides, the empty list, and lists with a name the registry does not hold
CriteriaLists ==
    { <<>>, <<"sector_asc", "price_desc">>, <<"sector_asc", "symbol_desc">>,
      <<"volume_desc", "name_asc">>, <<"market_cap_asc", "sector_desc", "date_asc">>,
      <<UnknownCriterion>>, <<"sector_asc", UnknownCriterion, "symbol_desc">> }

\* the exhaustive arrays, and one past the size up to which smartSort picks bubble
SorterArrays == Arrays \cup { SampleArray(SmallLimit + Margin, 0) }

DispatchCriteria == {"symbol_asc", "price_desc", UnknownCriterion}

NoOutcome ==
    [op |-> "none", raised |-> FALSE, success |-> FALSE, error |-> "",
     samplesUsed |-> NoValue, featuresCount |-> NoValue,
     predictedPrice |-> NoValue, confidence |-> NoValue, currentPrice |-> NoValue,
     priceChange |-> NoValue, priceChangePercent |-> NoValue, daysAhead |-> NoValue]

DaysAhead == {1, 7}

NoResult ==
    [op |-> "none", preferredAlgorithm |-> Null, threw |-> FALSE, error |-> "",
     value |-> <<>>, algorithm |-> ""]

\* the result of one of the four sorts
SortResult(op, call) ==
    [op |-> op, preferredAlgorithm |-> Null, threw |-> call.threw,
     error |-> call.error, value |-> call.value, algorithm |-> "",
     same |-> call.same]

(***************************************************************************)
(* The StockSorter's operations as actions on the caller's array.          *)
(***************************************************************************)
\* the server before it has answered a request
NoResponse ==
    [handler |-> "none", symbol |-> "", retrain |-> FALSE, days_ahead |-> 0,
     status |-> 0, error |-> "", trained |-> FALSE]

\* no request answered yet
Idle == response = NoResponse

NoIndicators == [op |-> "none", features |-> <<>>, value |-> Whole(0)]

\* no indicator function called yet
NotCalculated == indicators = NoIndicators

\* a client that has sent nothing yet
NoRequest ==
    [pc |-> "idle", symbol |-> "", retrain |-> FALSE, historicalData |-> <<>>,
     trained |-> FALSE, usedModel |-> NullModel, prediction |-> NoOutcome,
     status |-> 0, error |-> ""]

\* the clients whose requests the server may hold at once
Clients == {"first", "second"}

NoRequests == requests = [c \in Clients |-> NoRequest]

\* new StockRandomForest(): the constructor's state
Constructed ==
    /\ model = NullModel
    /\ isTrained = FALSE
    /\ barsGiven = <<>>
    /\ outcome = NoOutcome
    /\ trainedOnce = FALSE

SortInit ==
    /\ arr \in Arrays
    /\ sortBy \in Criteria
    /\ result = NoResult
    /\ Constructed
    /\ Idle
    /\ NotCalculated
    /\ NoRequests

QuickSort ==
    /\ \E call \in {quickSort(arr, sortBy)} :
           /\ result' = SortResult("quickSort", call)
           /\ arr' = call.input
    /\ UNCHANGED sortBy
    /\ UNCHANGED forecastVars
    /\ UNCHANGED serverVars
    /\ UNCHANGED indicatorVars
    /\ UNCHANGED requestVars

MergeSort ==
    /\ \E call \in {mergeSort(arr, sortBy)} :
           /\ result' = SortResult("mergeSort", call)
           /\ arr' = call.input
    /\ UNCHANGED sortBy
    /\ UNCHANGED forecastVars
    /\ UNCHANGED serverVars
    /\ UNCHANGED indicatorVars
    /\ UNCHANGED requestVars

HeapSort ==
    /\ \E call \in {heapSort(arr, sortBy)} :
           /\ result' = SortResult("heapSort", call)
           /\ arr' = call.input
    /\ UNCHANGED sortBy
    /\ UNCHANGED forecastVars
    /\ UNCHANGED serverVars
    /\ UNCHANGED indicatorVars
    /\ UNCHANGED requestVars

BubbleSort ==
    /\ \E call \in {bubbleSort(arr, sortBy)} :
           /\ result' = SortResult("bubbleSort", call)
           /\ arr' = call.input
    /\ UNCHANGED sortBy
    /\ UNCHANGED forecastVars
    /\ UNCHANGED serverVars
    /\ UNCHANGED indicatorVars
    /\ UNCHANGED requestVars

SmartSort(preferredAlgorithm) ==
    /\ \E r \in {smartSort(arr, sortBy, preferredAlgorithm)} :
           /\ result' = [op |-> "smartSort", preferredAlgorithm |-> preferredAlgorithm,
                         threw |-> r.threw, error |-> r.error, value |-> r.sortedData,
                         algorithm |-> r.algorithm, same |-> r.same, ran |-> r.ran]
           /\ arr' = r.input
    /\ UNCHANGED sortBy
    /\ UNCHANGED forecastVars
    /\ UNCHANGED serverVars
    /\ UNCHANGED indicatorVars
    /\ UNCHANGED requestVars

SmartSortAny == \E p \in PreferredAlgorithms : SmartSort(p)

SmartSortUnpinned == SmartSort(Null)

SortNext ==
    \/ QuickSort
    \/ MergeSort
    \/ HeapSort
    \/ BubbleSort
    \/ SmartSortAny

SortSpec == SortInit /\ [][SortNext]_vars

MultiSort ==
    /\ \E criteria \in CriteriaLists :
           \E call \in {multiSort(arr, criteria)} :
               /\ result' = [op |-> "multiSort", preferredAlgorithm |-> Null,
                             threw |-> call.threw, error |-> call.error,
                             value |-> call.value, algorithm |-> "",
                             same |-> call.same, criteria |-> criteria]
               /\ arr' = call.input
    /\ UNCHANGED sortBy
    /\ UNCHANGED forecastVars
    /\ UNCHANGED serverVars
    /\ UNCHANGED indicatorVars
    /\ UNCHANGED requestVars

\* smartSort with no algorithm pinned, on arrays around the size thresholds
DispatchInit ==
    /\ arr \in DispatchArrays
    /\ sortBy \in DispatchCriteria
    /\ result = NoResult
    /\ Constructed
    /\ Idle
    /\ NotCalculated
    /\ NoRequests

DispatchNext == SmartSortUnpinned

DispatchSpec == DispatchInit /\ [][DispatchNext]_vars

\* benchmarkAlgorithms on arrays around the size at which bubble sort is dropped
BenchmarkLengths ==
    {0, 1, 2, 50, 200} \cup ((BubbleLimit - Margin)..(BubbleLimit + Margin))

BenchmarkArrays == { SampleArray(n, k) : n \in BenchmarkLengths, k \in {0, 3} }

BenchmarkCriteria == {"symbol_asc", "price_desc", "change_asc", UnknownCriterion}

BenchmarkInit ==
    /\ arr \in BenchmarkArrays
    /\ sortBy \in BenchmarkCriteria
    /\ result = NoResult
    /\ Constructed
    /\ Idle
    /\ NotCalculated
    /\ NoRequests

BenchmarkAlgorithms ==
    /\ \E r \in {benchmarkAlgorithms(arr, sortBy)} :
           /\ result' = [op |-> "benchmarkAlgorithms", preferredAlgorithm |-> Null,
                         threw |-> r.threw, error |-> r.error, value |-> r.keys,
                         algorithm |-> "", runs |-> r.runs]
           /\ arr' = r.input
    /\ UNCHANGED sortBy
    /\ UNCHANGED forecastVars
    /\ UNCHANGED serverVars
    /\ UNCHANGED indicatorVars
    /\ UNCHANGED requestVars

BenchmarkNext == BenchmarkAlgorithms

BenchmarkSpec == BenchmarkInit /\ [][BenchmarkNext]_vars

\* _partition on every sub-range of an array, in place, as _quickSortRecursive
\* calls it on its working array
PartitionCriteria == {"price_asc", "symbol_desc", "sector_asc", "change_desc"}

PartitionArrays == ShortArrays \cup { LongArray(2 * MaxLen, k) : k \in 0..2 }

PartitionInit ==
    /\ arr \in PartitionArrays
    /\ sortBy \in PartitionCriteria
    /\ result = NoResult
    /\ Constructed
    /\ Idle
    /\ NotCalculated
    /\ NoRequests

Partition ==
    /\ \E low \in 0..(Len(arr) - 1), high \in 0..(Len(arr) - 1) :
           /\ low <= high
           /\ \E p \in {_partition(arr, low, high, sortBy)} :
                  /\ result' = [op |-> "_partition", preferredAlgorithm |-> Null,
                                threw |-> FALSE, error |-> "", value |-> arr,
                                algorithm |-> "", low |-> low, high |-> high,
                                pivotIndex |-> p.pivotIndex]
                  /\ arr' = p.arr
    /\ UNCHANGED sortBy
    /\ UNCHANGED forecastVars
    /\ UNCHANGED serverVars
    /\ UNCHANGED indicatorVars
    /\ UNCHANGED requestVars

PartitionNext == Partition

PartitionSpec == PartitionInit /\ [][PartitionNext]_vars

\* every operation of the StockSorter, called in any order on one array
SorterCriteria == PartitionCriteria \cup {"volume_asc", "date_desc", UnknownCriterion}

SorterInit ==
    /\ arr \in SorterArrays
    /\ sortBy \in SorterCriteria
    /\ result = NoResult
    /\ Constructed
    /\ Idle
    /\ NotCalculated
    /\ NoRequests

SorterNext ==
    \/ SortNext
    \/ MultiSort
    \/ BenchmarkAlgorithms

SorterSpec == SorterInit /\ [][SorterNext]_vars

(***************************************************************************)
(* The StockRandomForest's operations as actions on one instance.          *)
(***************************************************************************)
Forecaster == [model |-> model, isTrained |-> isTrained]

ForecastInit ==
    /\ arr = <<>>
    /\ sortBy = "symbol_asc"
    /\ result = NoResult
    /\ Constructed
    /\ Idle
    /\ NotCalculated
    /\ NoRequests

Train ==
    \E bars \in BarInputs, libraryThrows \in BOOLEAN :
        LET r == train(Forecaster, bars, libraryThrows)
        IN  /\ model' = r.model
            /\ isTrained' = r.isTrained
            /\ barsGiven' = bars
            /\ outcome' = r.result
            /\ trainedOnce' = (trainedOnce \/ r.result.success)
            /\ UNCHANGED sortVars
            /\ UNCHANGED serverVars
            /\ UNCHANGED indicatorVars
            /\ UNCHANGED requestVars

Predict ==
    \E bars \in BarInputs, daysAhead \in DaysAhead, libraryThrows \in BOOLEAN :
        /\ outcome' = predict(Forecaster, bars, daysAhead, libraryThrows)
        /\ barsGiven' = bars
        /\ UNCHANGED <<model, isTrained, trainedOnce>>
        /\ UNCHANGED sortVars
        /\ UNCHANGED serverVars
        /\ UNCHANGED indicatorVars
        /\ UNCHANGED requestVars

ForecastNext ==
    \/ Train
    \/ Predict

ForecastSpec == ForecastInit /\ [][ForecastNext]_vars

(***************************************************************************)
(* The server: one StockRandomForest instance, created when the module is  *)
(* loaded, answers every prediction request.  train and predict run        *)
(* without an await between them, so a request's use of the instance is    *)
(* one step; the loop of the predicted-gainers handler awaits the database *)
(* between its iterations, so each iteration is a step of its own.  The    *)
(* tables are read-only here: the rows a backfill inserts are the rows the *)
(* handler reads again.                                                    *)
(***************************************************************************)
MinHistory == 50

\* the symbols of the stocks table
Symbols == {"AAA", "BBB", "DDD", "EEE"}

\* a symbol the stocks table does not hold
UnknownSymbol == "ZZZ"

\* the rows of historical_data of each stock, by date
historical_data ==
    [symbol \in Symbols |->
        CASE symbol = "AAA" -> Series(FirstFeatureIndex + MinSamples + 1, "rising")
          [] symbol = "BBB" -> Series(FirstFeatureIndex + MinSamples, "zigzag")
          [] symbol = "DDD" -> Series(FirstFeatureIndex + 1, "zigzag")
          [] OTHER          -> Series(1, "rising")]

\* the rows read again after a backfill from the market-data service
Refetched ==
    [symbol \in Symbols |->
        IF symbol = "DDD" THEN Series(FirstFeatureIndex + MinSamples, "rising")
        ELSE Series(FirstFeatureIndex + MinSamples - 1, "zigzag")]

\* mutant of mustTrain: every request trains
mustTrainAlways(trained, retrain) == TRUE

\* if (!randomForest.isTrained || retrain)
mustTrain(trained, retrain) == ~trained \/ retrain

Response(handler, symbol, retrain, days_ahead, status, error, trained) ==
    [handler |-> handler, symbol |-> symbol, retrain |-> retrain,
     days_ahead |-> days_ahead, status |-> status, error |-> error,
     trained |-> trained]

\* a request that ends before the forecaster is used
Untouched(fc, answer) ==
    [model |-> fc.model, isTrained |-> fc.isTrained, called |-> FALSE,
     bars |-> <<>>, outcome |-> NoOutcome, response |-> answer]

\* POST /api/predict/:symbol
postPredict(fc, symbol, days_ahead, retrain, backfillFails, trainThrows, predictThrows) ==
    IF symbol \notin Symbols
    THEN Untouched(fc, Response("predict", symbol, retrain, days_ahead, 404,
                                "Stock not found", FALSE))
    ELSE IF Len(historical_data[symbol]) < MinHistory /\ backfillFails
    THEN Untouched(fc, Response("predict", symbol, retrain, days_ahead, 400,
                                "Insufficient historical data and failed to backfill from Alpha Vantage",
                                FALSE))
    ELSE LET historicalData == IF Len(historical_data[symbol]) < MinHistory
                               THEN Refetched[symbol] ELSE historical_data[symbol]
             training == mustTrain(fc.isTrained, retrain)
         IN  Val({ IF training /\ ~t.result.success
                   THEN [model |-> t.model, isTrained |-> t.isTrained, called |-> TRUE,
                         bars |-> historicalData, outcome |-> t.result,
                         response |-> Response("predict", symbol, retrain, days_ahead,
                                               500, "Failed to train prediction model",
                                               TRUE)]
                   ELSE Val({ [model |-> t.model, isTrained |-> t.isTrained,
                               called |-> TRUE, bars |-> historicalData, outcome |-> p,
                               response |-> Response("predict", symbol, retrain,
                                               days_ahead,
                                               IF p.success THEN 200 ELSE 500,
                                               IF p.success THEN ""
                                               ELSE "Failed to generate prediction",
                                               training)]
                              : p \in {predict(t, historicalData, days_ahead,
                                               predictThrows)} })
                   : t \in {IF training THEN train(fc, historicalData, trainThrows)
                            ELSE [model |-> fc.model, isTrained |-> fc.isTrained,
                                  result |-> NoOutcome]} })

\* one iteration of the loop of GET /api/stocks/predicted-gainers: status 200
\* stands for a prediction pushed to the results, 0 for a stock passed over
predictedGainers(fc, symbol, trainThrows, predictThrows) ==
    IF Len(historical_data[symbol]) < MinHistory
    THEN Untouched(fc, Response("gainers", symbol, FALSE, 1, 0, "", FALSE))
    ELSE LET historicalData == historical_data[symbol]
             training == ~fc.isTrained
         IN  Val({ Val({ [model |-> t.model, isTrained |-> t.isTrained, called |-> TRUE,
                          bars |-> historicalData, outcome |-> p,
                          response |-> Response("gainers", symbol, FALSE, 1,
                                                IF p.success THEN 200 ELSE 0, "",
                                                training)]
                         : p \in {predict(t, historicalData, 1, predictThrows)} })
                   : t \in {IF training THEN train(fc, historicalData, trainThrows)
                            ELSE [model |-> fc.model, isTrained |-> fc.isTrained,
                                  result |-> NoOutcome]} })

\* the effect of a request on the shared instance
Served(r) ==
    /\ model' = r.model
    /\ isTrained' = r.isTrained
    /\ response' = r.response
    /\ barsGiven' = IF r.called THEN r.bars ELSE barsGiven
    /\ outcome' = IF r.called THEN r.outcome ELSE outcome
    /\ trainedOnce' = (trainedOnce \/ (~isTrained /\ r.isTrained))
    /\ UNCHANGED sortVars
    /\ UNCHANGED indicatorVars
    /\ UNCHANGED requestVars

ServerInit ==
    /\ arr = <<>>
    /\ sortBy = "symbol_asc"
    /\ result = NoResult
    /\ Constructed
    /\ Idle
    /\ NotCalculated
    /\ NoRequests

\* what the services outside the server do during one request: nothing
\* fails, or the backfill, the fit or the regressor's prediction does
Faults == {"none", "backfill", "train", "predict"}

PostPredict ==
    \E symbol \in Symbols \cup {UnknownSymbol}, days_ahead \in DaysAhead,
       retrain \in BOOLEAN, fault \in Faults :
        Served(postPredict(Forecaster, symbol, days_ahead, retrain,
                           fault = "backfill", fault = "train", fault = "predict"))

PredictedGainers ==
    \E symbol \in Symbols, fault \in Faults \ {"backfill"} :
        Served(predictedGainers(Forecaster, symbol, fault = "train", fault = "predict"))

ServerNext ==
    \/ PostPredict
    \/ PredictedGainers

ServerSpec == ServerInit /\ [][ServerNext]_vars

(***************************************************************************)
(* The indicator functions, called on their own on one bar series.         *)
(***************************************************************************)
\* closes that fall by two a day, closes that stay at 50 with no volume
\* traded, and closes of 0
IndicatorShapes == Shapes \cup {"falling", "flat", "zero"}

Bars(n, shape) ==
    IF shape \in Shapes THEN Series(n, shape)
    ELSE [i \in 1..n |->
             CASE shape = "falling" -> [close_price |-> 200 - 2 * i, volume |-> 3 * i]
               [] shape = "flat"    -> [close_price |-> 50, volume |-> 0]
               [] OTHER             -> [close_price |-> 0, volume |-> i % 2]]

\* the longest series an indicator function is called on
MaxBars == FirstFeatureIndex + 1 + ExtraBars

\* lengths around the periods of the indicators and around the first feature
IndicatorLengths == {0, 1, 9, 10, 11, 14, 15, 16} \cup ((FirstFeatureIndex - 1)..MaxBars)

IndicatorInputs == { Bars(n, shape) : n \in IndicatorLengths, shape \in IndicatorShapes }

Calculated(op, features, value) == [op |-> op, features |-> features, value |-> value]

IndicatorInit ==
    /\ arr = <<>>
    /\ sortBy = "symbol_asc"
    /\ result = NoResult
    /\ model = NullModel
    /\ isTrained = FALSE
    /\ barsGiven \in IndicatorInputs
    /\ outcome = NoOutcome
    /\ trainedOnce = FALSE
    /\ Idle
    /\ NotCalculated
    /\ NoRequests

CalculateTechnicalIndicators ==
    /\ indicators' = Calculated("calculateTechnicalIndicators",
                                calculateTechnicalIndicators(barsGiven), Whole(0))
    /\ UNCHANGED <<model, isTrained, barsGiven, outcome, trainedOnce>>
    /\ UNCHANGED sortVars
    /\ UNCHANGED serverVars
    /\ UNCHANGED requestVars

\* calculateTechnicalIndicators called again, on a series that keeps the bars
\* 0 .. i and has other bars, or none, after them
CalculateOnRevisedBars ==
    \E i \in FirstFeatureIndex..(Len(barsGiven) - 1), n \in FirstFeatureIndex..MaxBars,
       shape \in IndicatorShapes :
        /\ indicators.op = "calculateTechnicalIndicators"
        /\ n >= i + 1
        /\ barsGiven' = SubSeq(barsGiven, 1, i + 1) \o SubSeq(Bars(n, shape), i + 2, n)
        /\ indicators' = Calculated("calculateTechnicalIndicators",
                                    calculateTechnicalIndicators(barsGiven'), Whole(0))
        /\ UNCHANGED <<model, isTrained, outcome, trainedOnce>>
        /\ UNCHANGED sortVars
        /\ UNCHANGED serverVars
        /\ UNCHANGED requestVars

CalculateRSI ==
    /\ indicators' = Calculated("calculateRSI", <<>>, calculateRSI(barsGiven, 14))
    /\ UNCHANGED <<model, isTrained, barsGiven, outcome, trainedOnce>>
    /\ UNCHANGED sortVars
    /\ UNCHANGED serverVars
    /\ UNCHANGED requestVars

CalculateVolumeRatio ==
    /\ indicators' = Calculated("calculateVolumeRatio", <<>>,
                                calculateVolumeRatio(barsGiven, 10))
    /\ UNCHANGED <<model, isTrained, barsGiven, outcome, trainedOnce>>
    /\ UNCHANGED sortVars
    /\ UNCHANGED serverVars
    /\ UNCHANGED requestVars

IndicatorNext ==
    \/ CalculateTechnicalIndicators
    \/ CalculateOnRevisedBars
    \/ CalculateRSI
    \/ CalculateVolumeRatio

IndicatorSpec == IndicatorInit /\ [][IndicatorNext]_vars

(***************************************************************************)
(* POST /api/predict/:symbol as the event loop runs it: a request is       *)
(* resumed when the promise it awaits settles and then runs, alone, up to  *)
(* its next await; requests of several clients interleave at the awaits.   *)
(* pc names the statement a request goes on with.                          *)
(***************************************************************************)
\* mutant of Suspends: the handler also yields between train and predict
SuspendsBeforePredict(pc) == pc \in {"history", "backfill", "refetch", "predict", "save"}

\* the statements reached through an await: the two history queries, the
\* market-data call with its inserts, and the insert of the prediction
Suspends(pc) == pc \in {"history", "backfill", "refetch", "save"}

\* the request answered with a status and an error text
Answered(q, status, error) == [q EXCEPT !.pc = "done", !.status = status, !.error = error]

\* the statements from pc up to the next await or return; st holds the
\* forecaster, the request, and the bars and result of the last train or
\* predict call
Segment(st, fault) ==
    LET q == st.q
    IN  CASE q.pc = "lookup" ->
                 IF q.symbol \notin Symbols
                 THEN [st EXCEPT !.q = Answered(q, 404, "Stock not found")]
                 ELSE [st EXCEPT !.q.pc = "history"]
          [] q.pc = "history" ->
                 [st EXCEPT !.q.historicalData = historical_data[q.symbol],
                            !.q.pc = IF Len(historical_data[q.symbol]) < MinHistory
                                     THEN "backfill" ELSE "train"]
          [] q.pc = "backfill" ->
                 IF fault = "backfill"
                 THEN [st EXCEPT !.q = Answered(q, 400,
                          "Insufficient historical data and failed to backfill from Alpha Vantage")]
                 ELSE [st EXCEPT !.q.pc = "refetch"]
          [] q.pc = "refetch" ->
                 [st EXCEPT !.q.historicalData = Refetched[q.symbol], !.q.pc = "train"]
          [] q.pc = "train" ->
                 IF mustTrain(st.fc.isTrained, q.retrain)
                 THEN Val({ [fc |-> [model |-> t.model, isTrained |-> t.isTrained],
                             q |-> IF t.result.success
                                   THEN [q EXCEPT !.trained = TRUE, !.pc = "predict"]
                                   ELSE Answered(q, 500, "Failed to train prediction model"),
                             bars |-> q.historicalData, outcome |-> t.result]
                            : t \in {train(st.fc, q.historicalData, fault = "train")} })
                 ELSE [st EXCEPT !.q.pc = "predict"]
          [] q.pc = "predict" ->
                 Val({ [fc |-> st.fc,
                        q |-> IF p.success
                              THEN [q EXCEPT !.usedModel = st.fc.model, !.prediction = p,
                                             !.pc = "save"]
                              ELSE Answered([q EXCEPT !.usedModel = st.fc.model,
                                                      !.prediction = p],
                                            500, "Failed to generate prediction"),
                        bars |-> q.historicalData, outcome |-> p]
                       : p \in {predict(st.fc, q.historicalData, 1, fault = "predict")} })
          [] OTHER ->
                 [st EXCEPT !.q = Answered(q, 200, "")]

RECURSIVE RunToAwait(_, _)
\* the request runs on until it returns or reaches an await
RunToAwait(st0, fault) ==
    Val({ IF st.q.pc = "done" \/ Suspends(st.q.pc) THEN st ELSE RunToAwait(st, fault)
          : st \in {Segment(st0, fault)} })

ConcurrentInit ==
    /\ arr = <<>>
    /\ sortBy = "symbol_asc"
    /\ result = NoResult
    /\ Constructed
    /\ Idle
    /\ NotCalculated
    /\ NoRequests

\* a request arrives: the handler runs up to its first await, the stock query
Receive(c) ==
    /\ requests[c].pc = "idle"
    /\ \E symbol \in Symbols \cup {UnknownSymbol}, retrain \in BOOLEAN :
           requests' = [requests EXCEPT ![c] = [NoRequest EXCEPT !.pc = "lookup",
                                                                !.symbol = symbol,
                                                                !.retrain = retrain]]
    /\ UNCHANGED sortVars
    /\ UNCHANGED forecastVars
    /\ UNCHANGED serverVars
    /\ UNCHANGED indicatorVars

\* the promise a request awaits settles: the request runs up to its next await
Resume(c) ==
    /\ requests[c].pc \notin {"idle", "done"}
    /\ \E fault \in Faults :
           \E st \in {RunToAwait([fc |-> Forecaster, q |-> requests[c],
                                  bars |-> barsGiven, outcome |-> outcome], fault)} :
               /\ requests' = [requests EXCEPT ![c] = st.q]
               /\ model' = st.fc.model
               /\ isTrained' = st.fc.isTrained
               /\ barsGiven' = st.bars
               /\ outcome' = st.outcome
               /\ trainedOnce' = (trainedOnce \/ (~isTrained /\ st.fc.isTrained))
               /\ response' = IF st.q.pc = "done"
                              THEN Response("predict", st.q.symbol, st.q.retrain, 1,
                                            st.q.status, st.q.error, st.q.trained)
                              ELSE response
    /\ UNCHANGED sortVars
    /\ UNCHANGED indicatorVars

\* each client sends one request
ConcurrentNext == \E c \in Clients : Receive(c) \/ Resume(c)

ConcurrentSpec == ConcurrentInit /\ [][ConcurrentNext]_vars

(***************************************************************************)
(* Properties.                                                             *)
(***************************************************************************)
FourSorts == {"quickSort", "mergeSort", "heapSort", "bubbleSort"}

Range(s) == { s[i] : i \in DOMAIN s }

Count(s, r) == Cardinality({ i \in DOMAIN s : s[i] = r })

IsPermutation(s, t) ==
    /\ Len(s) = Len(t)
    /\ \A r \in Range(s) \cup Range(t) : Count(s, r) = Count(t, r)

IsSorted(s, c) == \A i \in 1..(Len(s) - 1) : compareFunc(c, s[i], s[i + 1]) <= 0

NoTies(s, c) == \A i, j \in DOMAIN s : i # j => compareFunc(c, s[i], s[j]) # 0

\* the records of s that compare equal to r, in the order they have in s
TiesWith(s, c, r) == SelectSeq(s, LAMBDA x : compareFunc(c, x, r) = 0)

IsStable(in, out, c) == \A r \in Range(in) : TiesWith(out, c, r) = TiesWith(in, c, r)

\* two distinct records of s compare equal
HasTie(s, c) == \E i, j \in DOMAIN s : s[i] # s[j] /\ compareFunc(c, s[i], s[j]) = 0

\* C1: each of the four sorts, under every registered criterion, returns a
\* permutation of its input in which every adjacent pair (x, y) has
\* compare(x, y) <= 0.
C1_SortedPermutation ==
    (result.op \in FourSorts /\ sortBy \in compareFunctions)
        => /\ ~result.threw
           /\ IsPermutation(arr, result.value)
           /\ IsSorted(result.value, sortBy)

C1_Witness ==
    /\ result.op = "heapSort"
    /\ sortBy = "price_desc"
    /\ Len(arr) > MaxLen
    /\ ~IsSorted(arr, sortBy)
    /\ IsSorted(result.value, sortBy)

\* C2 as stated: sorting an already-sorted array (ties allowed) returns the
\* records in exactly the same order, for all four sorts.
C2_AllFourKeepSortedInput ==
    (result.op \in FourSorts /\ sortBy \in compareFunctions /\ IsSorted(arr, sortBy))
        => result.value = arr

\* C2 as amended: quickSort, mergeSort and bubbleSort return an already-sorted
\* array in exactly the same order; heapSort does so when no two records
\* compare equal, and otherwise returns records that compare equal, position
\* by position, to the input's.
C2_SortedInputKept ==
    (result.op \in FourSorts /\ sortBy \in compareFunctions /\ IsSorted(arr, sortBy))
        => /\ result.op # "heapSort" => result.value = arr
           /\ result.op = "heapSort" =>
                  /\ NoTies(arr, sortBy) => result.value = arr
                  /\ Len(result.value) = Len(arr)
                  /\ \A i \in DOMAIN arr :
                         compareFunc(sortBy, result.value[i], arr[i]) = 0

C2_Witness ==
    /\ result.op = "quickSort"
    /\ sortBy \in compareFunctions
    /\ Len(arr) = MaxLen
    /\ IsSorted(arr, sortBy)
    /\ HasTie(arr, sortBy)
    /\ result.value = arr

\* C3: mergeSort and bubbleSort are stable: records that compare equal keep
\* the relative order they had in the input.
C3_Stable ==
    (result.op \in {"mergeSort", "bubbleSort"} /\ sortBy \in compareFunctions)
        => IsStable(arr, result.value, sortBy)

C3_Witness ==
    /\ result.op = "mergeSort"
    /\ sortBy \in compareFunctions
    /\ Len(arr) > MaxLen
    /\ HasTie(arr, sortBy)
    /\ ~IsSorted(arr, sortBy)
    /\ IsStable(arr, result.value, sortBy)

\* C4: a sort (or smartSort over them) called with a criterion name that is
\* not in the registry fails with the invalid-criterion error for every
\* input, the empty and the one-record array included.
C4_UnknownCriterionFails ==
    (result.op # "none" /\ sortBy \notin compareFunctions)
        => (result.threw /\ result.error = InvalidCriteria)

\* C5: with no algorithm pinned, smartSort chooses by the input length alone:
\* bubble up to 10 records, quick from 11 to 1000, merge from 1001 on, and
\* reports the chosen name as the algorithm used.
C5_ChosenBySize ==
    (result.op = "smartSort" /\ result.preferredAlgorithm = Null /\ ~result.threw)
        => /\ Len(arr) <= 10 => result.algorithm = "bubble"
           /\ (10 < Len(arr) /\ Len(arr) <= 1000) => result.algorithm = "quick"
           /\ Len(arr) > 1000 => result.algorithm = "merge"

C5_Witness ==
    /\ result.op = "smartSort"
    /\ result.preferredAlgorithm = Null
    /\ Len(arr) = 1001
    /\ result.algorithm = "merge"
    /\ IsSorted(result.value, sortBy)

C9_SampleCount ==
    (outcome.op = "train" /\ outcome.success)
        => outcome.samplesUsed = Len(barsGiven) - 27

\* C10: the training set handed to the regressor is a pair of parallel
\* arrays of length n - 27 for n bars, and the target paired with the feature
\* vector computed at bar index i is the close of bar i + 1.
C10_ParallelArrays ==
    (outcome.op = "train" /\ outcome.success)
        => /\ Len(model.X) = Len(model.y)
           /\ Len(model.X) = Len(barsGiven) - 27
           /\ \A k \in DOMAIN model.X :
                  /\ model.X[k] = IndicatorsOf[barsGiven][k]
                  /\ model.y[k] = At(barsGiven, FirstFeatureIndex + k).close_price

\* C11: train and predict never raise to the caller: whatever the bars, the
\* instance's state and the regression library do, each call ends with a
\* success result or with a result whose success flag is false and which
\* carries an error message.
C11_NeverRaises ==
    outcome.op \in {"train", "predict"}
        => /\ ~outcome.raised
           /\ outcome.success \/ outcome.error # ""

C11_Witness ==
    /\ outcome.op = "train"
    /\ outcome.error = LibraryError
    /\ ~outcome.raised
    /\ ~outcome.success
    /\ Len(barsGiven) = 90

\* C12: a forecaster is untrained at construction, and the trained flag is
\* monotone: no train or predict call, failing ones included, clears it, so
\* an instance on which a train has succeeded stays trained.
C12_TrainedMonotone ==
    /\ ~isTrained
    /\ [][isTrained => isTrained']_vars
    /\ [](trainedOnce => isTrained)

C12_Witness ==
    /\ isTrained
    /\ trainedOnce
    /\ outcome.op = "train"
    /\ ~outcome.success
    /\ outcome.error = LibraryError

\* C13: the server's one forecaster is shared by all symbols and requests:
\* once it is trained, a prediction request that does not ask for a retrain
\* (for the symbol it was trained on or for any other) does not train it, and
\* the prediction it answers with is the one the model fitted earlier, on the
\* other symbol's bars, gives for the requested symbol's bars.
C13_SharedForecaster ==
    [][(response'.handler \in {"predict", "gainers"} /\ response'.status = 200
           /\ isTrained /\ ~response'.retrain)
          => /\ ~response'.trained
             /\ model' = model
             /\ barsGiven' = historical_data[response'.symbol]
                    \/ barsGiven' = Refetched[response'.symbol]
             /\ outcome'.predictedPrice
                    = RegressorPredict(model,
                          IndicatorsOf[barsGiven'][Len(IndicatorsOf[barsGiven'])])]_vars

C13_Witness ==
    /\ response.handler = "predict"
    /\ response.symbol = "BBB"
    /\ ~response.retrain
    /\ response.status = 200
    /\ model.fitted
    /\ model.X = IndicatorsOf[historical_data["AAA"]]
    /\ model.X # IndicatorsOf[historical_data["BBB"]]
    /\ barsGiven = historical_data["BBB"]
    /\ outcome.success

\* C14: calculateTechnicalIndicators has no look-ahead: when two bar series
\* agree on the bars 0 .. i (i >= 26), whatever comes after them, the feature
\* vector produced for bar i is the same for both.
C14_NoLookAhead ==
    [][(indicators.op = "calculateTechnicalIndicators"
           /\ indicators'.op = "calculateTechnicalIndicators")
          => \A i \in FirstFeatureIndex..(Len(barsGiven) - 1) :
                 (Len(barsGiven') > i
                      /\ SubSeq(barsGiven', 1, i + 1) = SubSeq(barsGiven, 1, i + 1))
                     => /\ Len(indicators'.features) > i - FirstFeatureIndex
                        /\ indicators'.features[i - FirstFeatureIndex + 1]
                               = indicators.features[i - FirstFeatureIndex + 1]]_vars

C14_Witness ==
    /\ indicators.op = "calculateTechnicalIndicators"
    /\ Len(barsGiven) = MaxBars
    /\ SubSeq(barsGiven, 1, FirstFeatureIndex + 1) = Bars(FirstFeatureIndex + 1, "zigzag")
    /\ barsGiven # Bars(MaxBars, "zigzag")
    /\ indicators.features[1] = FeatureVector(Bars(FirstFeatureIndex + 1, "zigzag"),
                                              FirstFeatureIndex)
    /\ indicators.features[2] # FeatureVector(Bars(MaxBars, "zigzag"),
                                              FirstFeatureIndex + 1)

\* C15: calculateTechnicalIndicators returns an empty sequence if and only if
\* fewer than 27 bars are supplied, and predict on a trained instance fails
\* with the insufficient-data error in exactly that case.
C15_EmptyBelow27 ==
    /\ Len(IndicatorsOf[barsGiven]) = 0 <=> Len(barsGiven) < 27
    /\ (outcome.op = "predict" /\ isTrained)
           => ((~outcome.success /\ outcome.error = InsufficientRecent)
                   <=> Len(barsGiven) < 27)

C15_Witness ==
    /\ outcome.op = "predict"
    /\ isTrained
    /\ model.fitted
    /\ Len(barsGiven) = 26
    /\ Len(IndicatorsOf[barsGiven]) = 0
    /\ ~outcome.success
    /\ outcome.error = InsufficientRecent

\* two values <<numerator, denominator>> that stand for the same number
SameRatio(a, b) == a[1] * b[2] = b[1] * a[2]

\* C16: calculateVolumeRatio(data, 10) is the last bar's volume divided by the
\* mean volume of the 10 bars before it (the last bar left out of the mean),
\* and 1 when fewer than 10 bars come before it or that mean is zero.
C16_VolumeRatioOfPreceding ==
    indicators.op = "calculateVolumeRatio"
        => LET n         == Len(barsGiven)
               preceding == SumVolume(barsGiven, n - 11, n - 1)
           IN  IF n < 11 THEN SameRatio(indicators.value, Whole(1))
               ELSE IF preceding = 0 THEN SameRatio(indicators.value, Whole(1))
               ELSE SameRatio(indicators.value,
                              <<At(barsGiven, n - 1).volume * 10, preceding>>)

StrictlyIncreasing(data) ==
    \A i \in 1..(Len(data) - 1) : data[i].close_price < data[i + 1].close_price

StrictlyDecreasing(data) ==
    \A i \in 1..(Len(data) - 1) : data[i].close_price > data[i + 1].close_price

\* C17: calculateRSI(data, 14) lies in [0, 100] for every series of
\* non-negative closes; it is 50 for fewer than 15 bars, 100 for closes that
\* rise strictly over 15 bars or more, and 0 for closes that fall strictly
\* over 15 bars or more.
C17_RSIRange ==
    indicators.op = "calculateRSI"
        => /\ indicators.value[2] > 0
           /\ 0 <= indicators.value[1]
           /\ indicators.value[1] <= 100 * indicators.value[2]
           /\ Len(barsGiven) < 15 => SameRatio(indicators.value, Whole(50))
           /\ (Len(barsGiven) >= 15 /\ StrictlyIncreasing(barsGiven))
                  => SameRatio(indicators.value, Whole(100))
           /\ (Len(barsGiven) >= 15 /\ StrictlyDecreasing(barsGiven))
                  => SameRatio(indicators.value, Whole(0))

C17_Witness ==
    /\ indicators.op = "calculateRSI"
    /\ Len(barsGiven) = MaxBars
    /\ ~StrictlyIncreasing(barsGiven)
    /\ ~StrictlyDecreasing(barsGiven)
    /\ 0 < indicators.value[1]
    /\ indicators.value[1] < 100 * indicators.value[2]

\* C18: every successful prediction carries a confidence within [0, 100],
\* whatever the predicted price and the bars (non-negative closes, a current
\* close of 0 included); for a current close above 0 it is 100 minus the
\* distance between predicted and current price in percent of the current
\* price, minus 50 times the 10-bar volatility over the current price, clamped.
C18_ConfidenceRange ==
    (outcome.op = "predict" /\ outcome.success)
        => /\ outcome.confidence[2] > 0
           /\ 0 <= outcome.confidence[1]
           /\ outcome.confidence[1] <= 100 * outcome.confidence[2]
           /\ outcome.currentPrice > 0
                  => outcome.confidence
                         = Thousandths(Clamp(
                               100000
                               - ((IF outcome.priceChange < 0 THEN -outcome.priceChange
                                   ELSE outcome.priceChange) * 100000)
                                     \div outcome.currentPrice
                               - (calculateVolatility(barsGiven, 10)[1] * 50)
                                     \div outcome.currentPrice))

\* C19: daysAhead does not influence the forecast: with the same trained
\* model and the same bars, a predict call with any other daysAhead returns
\* the same predictedPrice, confidence, currentPrice, priceChange and
\* priceChangePercent; only the echoed daysAhead differs.
C19_DaysAheadIsMetadata ==
    (outcome.op = "predict" /\ outcome.success)
        => \A d \in DaysAhead :
               /\ predict(Forecaster, barsGiven, d, FALSE)
                      = [outcome EXCEPT !.daysAhead = d]
               /\ d # outcome.daysAhead
                      => predict(Forecaster, barsGiven, d, FALSE) # outcome

C19_Witness ==
    /\ outcome.op = "predict"
    /\ outcome.success
    /\ outcome.daysAhead = 7
    /\ Len(barsGiven) = 90
    /\ outcome.predictedPrice = predict(Forecaster, barsGiven, 1, FALSE).predictedPrice
    /\ outcome.confidence = predict(Forecaster, barsGiven, 1, FALSE).confidence
    /\ predict(Forecaster, barsGiven, 1, FALSE).daysAhead = 1

\* C20: benchmarkAlgorithms on n records returns a mapping whose keys are
\* exactly quick, merge and heap when n > 100 and exactly quick, merge, heap
\* and bubble when n <= 100 (bubble is there at 100 and not at 101), each
\* algorithm having been run to completion once on the array.
C20_BenchmarkKeys ==
    (result.op = "benchmarkAlgorithms" /\ sortBy \in compareFunctions)
        => /\ ~result.threw
           /\ Len(arr) > 100 => Range(result.value) = {"quick", "merge", "heap"}
           /\ Len(arr) <= 100
                  => Range(result.value) = {"quick", "merge", "heap", "bubble"}
           /\ Cardinality(Range(result.value)) = Len(result.value)
           /\ Len(result.runs) = Len(result.value)
           /\ \A i \in DOMAIN result.runs :
                  /\ ~result.runs[i].threw
                  /\ Len(result.runs[i].value) = Len(arr)
                  /\ IsSorted(result.runs[i].value, sortBy)

C20_Witness ==
    /\ result.op = "benchmarkAlgorithms"
    /\ sortBy \in compareFunctions
    /\ Len(arr) = 100
    /\ result.value = <<"quick", "merge", "heap", "bubble">>
    /\ result.runs[4].value = result.runs[2].value
    /\ result.runs[4].value # arr

\* the operations that hand back an ordered array
SortOperations == FourSorts \cup {"smartSort", "multiSort"}

\* C21: no operation of the StockSorter mutates the caller's array: after any
\* sequence of quickSort, mergeSort, heapSort, bubbleSort, smartSort, multiSort
\* and benchmarkAlgorithms calls the array holds the same records in the same
\* order as before.
C21_CallerArrayKept == [][arr' = arr]_vars

C21_Witness ==
    /\ result.op = "benchmarkAlgorithms"
    /\ ~result.threw
    /\ Len(arr) > MaxLen
    /\ ~IsSorted(arr, sortBy)
    /\ \A i \in DOMAIN result.runs :
           IsSorted(result.runs[i].value, sortBy) /\ result.runs[i].value # arr

\* x and y compare equal under every criterion of the list
EqualUnder(criteria, x, y) ==
    \A k \in DOMAIN criteria : compareFunc(criteria[k], x, y) = 0

\* x may stand before y: the first criterion that tells them apart puts x first
LexOrdered(criteria, x, y) ==
    \/ EqualUnder(criteria, x, y)
    \/ \E k \in DOMAIN criteria :
           /\ compareFunc(criteria[k], x, y) < 0
           /\ \A j \in 1..(k - 1) : compareFunc(criteria[j], x, y) = 0

\* C22: multiSort with an ordered list of registered criteria returns a
\* permutation of the input ordered lexicographically by the listed
\* comparators (a later criterion decides between two records only when every
\* earlier one compares them equal), and records equal under all listed
\* criteria keep their input order.
C22_MultiSortLexicographic ==
    (result.op = "multiSort" /\ Range(result.criteria) \subseteq compareFunctions)
        => /\ ~result.threw
           /\ IsPermutation(arr, result.value)
           /\ \A i, j \in DOMAIN result.value :
                  i < j => LexOrdered(result.criteria, result.value[i], result.value[j])
           /\ \A r \in Range(arr) :
                  SelectSeq(result.value, LAMBDA x : EqualUnder(result.criteria, x, r))
                      = SelectSeq(arr, LAMBDA x : EqualUnder(result.criteria, x, r))

C22_Witness ==
    /\ result.op = "multiSort"
    /\ result.criteria = <<"sector_asc", "symbol_desc">>
    /\ Len(arr) > MaxLen
    /\ result.value # arr
    /\ \E i \in 1..(Len(result.value) - 1) :
           /\ result.value[i].sector = result.value[i + 1].sector
           /\ result.value[i].symbol > result.value[i + 1].symbol
    /\ \E i, j \in DOMAIN arr :
           /\ i < j
           /\ arr[i].sector = arr[j].sector
           /\ arr[i].symbol < arr[j].symbol

\* C23: multiSort called with a criteria list that holds a name the registry
\* does not hold fails with the invalid-criterion error and returns no
\* ordering.
C23_UnknownInListFails ==
    (result.op = "multiSort" /\ ~(Range(result.criteria) \subseteq compareFunctions))
        => (result.threw /\ result.error = InvalidCriteria)

\* C24: every sort operation returns a newly allocated array, never the
\* caller's own array object, for every input length, 0 and 1 included.
C24_ResultIsNewArray ==
    (result.op \in SortOperations /\ ~result.threw) => ~result.same

\* the model a successful train on the bars leaves in the forecaster
FittedOn(bars) == Fitted(IndicatorsOf[bars], Targets(bars))

\* C25: in POST /api/predict/:symbol with retrain = true and a successful
\* train, train and predict run with no suspension point between them, so
\* under every interleaving of concurrent requests on the shared forecaster
\* the prediction returned for the request is produced by the model fitted on
\* the request's own bars.
C25_PredictionFromOwnTraining ==
    \A c \in Clients :
        (requests[c].retrain /\ requests[c].trained /\ requests[c].prediction.success)
            => /\ requests[c].usedModel = FittedOn(requests[c].historicalData)
               /\ requests[c].prediction
                      = predict([model |-> FittedOn(requests[c].historicalData),
                                 isTrained |-> TRUE],
                                requests[c].historicalData, 1, FALSE)

C25_Witness ==
    /\ requests["first"].pc = "save"
    /\ requests["first"].retrain
    /\ requests["first"].trained
    /\ requests["first"].prediction.success
    /\ requests["second"].pc = "save"
    /\ requests["second"].retrain
    /\ requests["second"].trained
    /\ requests["second"].symbol # requests["first"].symbol
    /\ model = FittedOn(requests["second"].historicalData)
    /\ model # requests["first"].usedModel

\* C26: a train call that fails for any reason, a failure inside the
\* regression library on an already trained instance included, leaves the
\* forecaster's fitted model and trained flag as they were, so that in every
\* reachable state a set trained flag implies that the held model was fitted
\* by a successful train.
C26_FailedTrainKeepsModel ==
    /\ [][(outcome'.op = "train" /\ ~outcome'.success)
              => (model' = model /\ isTrained' = isTrained)]_vars
    /\ [](isTrained => model.fitted)

\* C27: _partition(arr, low, high) returns an index p with low <= p <= high
\* such that the element that was at arr[high] is now at p, every element in
\* low..p-1 compares <= it, every element in p+1..high compares > it, the
\* sub-range low..high is a permutation of its former content, and the
\* positions outside low..high are unchanged.  (result.value is the array as
\* it was before the call, arr the array after it.)
C27_PartitionPostcondition ==
    result.op = "_partition"
        => LET p == result.pivotIndex
               low == result.low
               high == result.high
           IN  /\ low <= p /\ p <= high
               /\ At(arr, p) = At(result.value, high)
               /\ \A k \in low..(p - 1) : compareFunc(sortBy, At(arr, k), At(arr, p)) <= 0
               /\ \A k \in (p + 1)..high : compareFunc(sortBy, At(arr, k), At(arr, p)) > 0
               /\ IsPermutation(SubSeq(result.value, low + 1, high + 1),
                                SubSeq(arr, low + 1, high + 1))
               /\ Len(arr) = Len(result.value)
               /\ \A k \in 0..(Len(arr) - 1) :
                      (k < low \/ k > high) => At(arr, k) = At(result.value, k)

C27_Witness ==
    /\ result.op = "_partition"
    /\ result.low > 0
    /\ result.high < Len(arr) - 1
    /\ result.low < result.pivotIndex
    /\ result.pivotIndex < result.high
    /\ arr # result.value
    /\ \E k \in result.low..(result.pivotIndex - 1) :
           compareFunc(sortBy, At(arr, k), At(arr, result.pivotIndex)) = 0

\* C28: the algorithm reported by smartSort names the algorithm that was
\* executed: a pinned quick, merge, heap or bubble runs and reports that
\* algorithm whatever the input size, and any other pinned name runs quick
\* sort and reports quick instead of failing.
C28_ReportedIsExecuted ==
    (result.op = "smartSort" /\ sortBy \in compareFunctions)
        => /\ ~result.threw
           /\ result.ran = result.algorithm \o "Sort"
           /\ result.preferredAlgorithm \in {"quick", "merge", "heap", "bubble"}
                  => result.algorithm = result.preferredAlgorithm
           /\ result.preferredAlgorithm \notin {Null, "quick", "merge", "heap", "bubble"}
                  => result.algorithm = "quick"
           /\ IsSorted(result.value, sortBy)

C28_Witness ==
    /\ result.op = "smartSort"
    /\ result.preferredAlgorithm = "insertion"
    /\ Len(arr) > SmallLimit
    /\ ~result.threw
    /\ result.ran = "quickSort"
    /\ result.algorithm = "quick"
    /\ result.value # arr

StableSorts == {"mergeSort", "bubbleSort"}

\* C29: for every input list and criterion mergeSort and bubbleSort return the
\* identical sequence (or both fail); and when no two input records compare
\* equal, quickSort, mergeSort, heapSort and bubbleSort all return the
\* identical sequence.  Stated over two calls made one after the other on the
\* same array.
C29_SortsAgree ==
    /\ [][(result.op \in StableSorts /\ result'.op \in StableSorts)
              => (arr' = arr /\ result'.threw = result.threw
                    /\ result'.value = result.value)]_vars
    /\ [][(result.op \in FourSorts /\ result'.op \in FourSorts
              /\ sortBy \in compareFunctions /\ NoTies(arr, sortBy))
              => (arr' = arr /\ ~result.threw /\ ~result'.threw
                    /\ result'.value = result.value)]_vars

C29_Witness ==
    /\ result.op = "bubbleSort"
    /\ sortBy \in compareFunctions
    /\ Len(arr) > MaxLen
    /\ HasTie(arr, sortBy)
    /\ ~IsSorted(arr, sortBy)
    /\ result.value = mergeSort(arr, sortBy).value
    /\ result.value # heapSort(arr, sortBy).value

\* C30: whenever an indicator is evaluated through
\* calculateTechnicalIndicators, its slice holds at least 27 bars, so none of
\* the insufficient-history fallbacks (latest close for SMA / EMA, RSI 50,
\* volatility 0, volume ratio 1, momentum 0) is taken on that path.
C30_NoFallbackInFeatures ==
    indicators.op = "calculateTechnicalIndicators"
        => /\ Len(indicators.features) = Len(Slices(barsGiven))
           /\ \A k \in DOMAIN Slices(barsGiven) :
                  /\ Len(Slices(barsGiven)[k]) >= 27
                  /\ Fallbacks(Slices(barsGiven)[k]) = {}
                  /\ indicators.features[k][1]
                         = <<SumClose(barsGiven, FirstFeatureIndex + k - 5,
                                      FirstFeatureIndex + k), 5>>

C30_Witness ==
    /\ indicators.op = "calculateTechnicalIndicators"
    /\ Len(barsGiven) = MaxBars
    /\ Len(indicators.features) = MaxBars - FirstFeatureIndex
    /\ Len(Slices(barsGiven)[1]) = 27
    /\ Fallbacks(SubSeq(barsGiven, 1, 25)) = {"ema_26"}
    /\ indicators.features[1][5] # Whole(barsGiven[27].close_price)

====
